---- MODULE Spec2Model ----
(***************************************************************************)
(* Zeus AI API: API key issuance, validation, expiration and daily quota   *)
(* (main.py, database.py, models.py), served by one uvicorn process.       *)
(*                                                                         *)
(* The server is a single asyncio event loop (main.py:263-264).  The       *)
(* handlers get_api_key, create_api_key and ask_zeus_ai are `async def`    *)
(* bodies that contain no `await`: each runs to completion on the loop's   *)
(* thread once started, so each is one action here.  Requests interleave   *)
(* only between those bodies: after the session is made (get_db, run in    *)
(* the thread pool), between the dependency and the endpoint, and before   *)
(* the session is closed.  chain.invoke is a synchronous call inside an    *)
(* `async def`: while it is pending the loop's thread is occupied.         *)
(*                                                                         *)
(* Time is counted in ticks; TicksPerDay ticks make a calendar day.        *)
(***************************************************************************)
EXTENDS Integers, FiniteSets, Sequences, TLC

\* ---------------------------------------------------------------- constants
DAILY_REQUEST_LIMIT == 1000
KEY_EXPIRATION_DAYS == 30

\* ------------------------------------------------------------------- bounds
TicksPerDay == 2
MaxTicks == 1
MaxReq == 2

Tokens == {"k1", "k2"}
Reqs == 1..MaxReq
UTCOffsets == {0, 1}

\* timedelta(days=KEY_EXPIRATION_DAYS), in ticks
ExpirationDelta == KEY_EXPIRATION_DAYS * TicksPerDay
StartTime == (KEY_EXPIRATION_DAYS + 2) * TicksPerDay

\* Python None for a header / query parameter, and NULL for a Date column
Absent == "<none>"
NoDate == -1

VARIABLES
    now,        \* the clock, UTC ticks (datetime.utcnow())
    utcoffset,  \* the server's local time zone, ticks east of UTC
    api_keys,   \* the rows of table api_keys
    pc,         \* per request: where it is in its handling
    kind,       \* per request: "ask" or "create"
    resp,       \* per request: the key get_api_key validated, then the
                \* HTTP response (status, detail, an api_key it carries)
    txn,        \* per request: its Session holds an open transaction
    running,    \* the requests whose synchronous call occupies the event loop
    accepted,   \* history: per key, validate calls accepted on the date of the last one
    issued,     \* history: the key strings create_api_key has returned, in order
    evicted,    \* history: the keys whose validate ended with 403 "expired",
                \* each with the number of keys issued until then
    lastOp      \* history: the handler run (get_api_key, create_api_key,
                \* chain.invoke) that the last step completed, NoOp after any
                \* other step

vars == <<now, utcoffset, api_keys, pc, kind, resp, txn, running,
          accepted, issued, evicted, lastOp>>

\* --------------------------------------------------------------- models.py
\* class APIKey: one row of api_keys
APIKey(id, key, created_at, last_request_date, request_count_today) ==
    [id |-> id, key |-> key, created_at |-> created_at,
     last_request_date |-> last_request_date,
     request_count_today |-> request_count_today]

\* what .first() returns when no row matches
NoRow == APIKey(0, "", 0, NoDate, 0)

Max(S) == CHOOSE x \in S : \A y \in S : y <= x
Min(S) == CHOOSE x \in S : \A y \in S : x <= y

\* SQLite INTEGER PRIMARY KEY: the new rowid is one more than the largest
NextId(rows) == IF rows = {} THEN 1 ELSE 1 + Max({w.id : w \in rows})

\* Column(String, unique=True): the INSERT is refused when the key is taken
\* (first, the column declared without unique=True)
UniqueViolationAlways(rows, key) == FALSE
UniqueViolation(rows, key) == \E w \in rows : w.key = key

\* a new APIKey(key=...) as inserted: created_at server_default=func.now(),
\* last_request_date NULL, request_count_today default=0
\* (first, the counter defaulting to 1)
NewRowCountOne(rows, key, t) == APIKey(NextId(rows), key, t, NoDate, 1)
NewRow(rows, key, t) == APIKey(NextId(rows), key, t, NoDate, 0)

\* ----------------------------------------------------------------- main.py
\* db.query(models.APIKey).filter(models.APIKey.key == api_key).first()
First(rows, key) ==
    LET hits == {w \in rows : w.key = key}
    IN  IF hits = {} THEN NoRow
        ELSE CHOOSE w \in hits : w.id = Min({h.id : h \in hits})

\* api_key = key_from_header or key_from_query
\* (first, the operands swapped)
CandidateQueryFirst(key_from_header, key_from_query) ==
    IF key_from_query \notin {Absent, ""} THEN key_from_query ELSE key_from_header
Candidate(key_from_header, key_from_query) ==
    IF key_from_header \notin {Absent, ""} THEN key_from_header ELSE key_from_query

\* not api_key
\* (first, the test written `api_key is None`)
FalsyNoneOnly(api_key) == api_key = Absent
Falsy(api_key) == api_key \in {Absent, ""}

\* datetime.utcnow() > created_at + timedelta(days=KEY_EXPIRATION_DAYS)
\* (first, the comparison written >=)
ExpiredInclusive(db_key, t) == t >= db_key.created_at + ExpirationDelta
\* (and the expiry test placed after the quota test, so that a key at its
\* limit for the day is answered 429 before its age is looked at)
ExpiredAfterQuota(db_key, t) ==
    /\ t > db_key.created_at + ExpirationDelta
    /\ ~(/\ db_key.last_request_date = (t + utcoffset) \div TicksPerDay
         /\ db_key.request_count_today >= DAILY_REQUEST_LIMIT)
Expired(db_key, t) == t > db_key.created_at + ExpirationDelta

\* date.today(): the calendar date of the server's local time zone
Today(t, off) == (t + off) \div TicksPerDay

\* db_key.request_count_today >= DAILY_REQUEST_LIMIT
\* (first, the comparison written >)
OverLimitStrict(db_key) == db_key.request_count_today > DAILY_REQUEST_LIMIT
OverLimit(db_key) == db_key.request_count_today >= DAILY_REQUEST_LIMIT

\* lines 208-214: the counter / date update of an accepted request
\* (first, with the reset writing 0; then, without the reset on a new date)
ChargeFromZero(db_key, today) ==
    IF db_key.last_request_date = today
    THEN [db_key EXCEPT !.request_count_today = db_key.request_count_today + 1]
    ELSE [db_key EXCEPT !.last_request_date = today, !.request_count_today = 0]
ChargeNoReset(db_key, today) ==
    [db_key EXCEPT !.last_request_date = today,
                   !.request_count_today = db_key.request_count_today + 1]
Charge(db_key, today) ==
    IF db_key.last_request_date = today
    THEN [db_key EXCEPT !.request_count_today = db_key.request_count_today + 1]
    ELSE [db_key EXCEPT !.last_request_date = today, !.request_count_today = 1]

\* db.commit(): the flushed rows replace the stored ones, or nothing is written
\* (first, a commit whose failure leaves the flushed rows in place)
CommitAnyway(rows, flushed, ok) == flushed
Commit(rows, flushed, ok) == IF ok THEN flushed ELSE rows

\* UPDATE api_keys SET ... WHERE id = db_key.id
\* (first, the UPDATE without its WHERE clause)
UpdatedNoWhere(rows, db_key) ==
    {[w EXCEPT !.last_request_date = db_key.last_request_date,
               !.request_count_today = db_key.request_count_today] : w \in rows}
Updated(rows, db_key) == {w \in rows : w.id # db_key.id} \cup {db_key}
\* DELETE FROM api_keys WHERE id = db_key.id
\* (first, a delete that is never flushed)
DeletedNot(rows, db_key) == rows
Deleted(rows, db_key) == {w \in rows : w.id # db_key.id}

\* ---------------------------------------------------------------- responses
\* days: the number a detail message names (the expiration window, the limit)
Resp(status, detail, key, days) ==
    [status |-> status, detail |-> detail, key |-> key, days |-> days]
NoResp == Resp(0, "", "", 0)

\* history of accepted validate calls per key and date
Admit(acc, key, today) ==
    [acc EXCEPT ![key] = IF acc[key].date = today
                         THEN [date |-> today, n |-> acc[key].n + 1]
                         ELSE [date |-> today, n |-> 1]]

\* one run of a handler: who, its inputs, the candidate key, the table and the
\* clock it started from, and whether a db.commit() it made raised
Op(name, r, hdr, qry, key, before, at, failed) ==
    [name |-> name, r |-> r, hdr |-> hdr, qry |-> qry, key |-> key,
     before |-> before, at |-> at, failed |-> failed]
NoOp == Op("", 0, Absent, Absent, "", {}, 0, FALSE)

\* -------------------------------------------------------------------- Init
\* Rows a running server can hold at StartTime.  Key k1 was issued long enough
\* ago to be past its expiration window (used up on its last valid date),
\* exactly at its end (never used, or one request below the limit today), just
\* now (never used, one below the limit or at the limit today), or two days
\* ago and used up yesterday; key k2 is inside its window, one request below
\* the limit today.
InitRows(off) ==
    LET today == Today(StartTime, off)
        expired == StartTime - ExpirationDelta - 1
        edge == StartTime - ExpirationDelta
        fresh == StartTime - 1
        older == StartTime - 2 * TicksPerDay
    IN  {APIKey(1, "k1", expired, Today(StartTime - 1, off), DAILY_REQUEST_LIMIT),
         APIKey(1, "k1", edge, NoDate, 0),
         APIKey(1, "k1", edge, today, DAILY_REQUEST_LIMIT - 1),
         APIKey(1, "k1", fresh, NoDate, 0),
         APIKey(1, "k1", fresh, today, DAILY_REQUEST_LIMIT - 1),
         APIKey(1, "k1", fresh, today, DAILY_REQUEST_LIMIT),
         APIKey(1, "k1", older, today - 1, DAILY_REQUEST_LIMIT)}
InitOther(off) ==
    {APIKey(2, "k2", StartTime - 1, Today(StartTime, off), DAILY_REQUEST_LIMIT - 1)}
InitTables(off) ==
    {a \cup b : a \in {{}} \cup {{w} : w \in InitRows(off)},
                b \in {{}} \cup {{w} : w \in InitOther(off)}}

\* the keys of the rows, in the order of their ids
RECURSIVE InitIssued(_)
InitIssued(rows) ==
    IF rows = {} THEN <<>>
    ELSE LET w == CHOOSE x \in rows : x.id = Max({y.id : y \in rows})
         IN  Append(InitIssued(rows \ {w}), w.key)

InitAccepted(rows) ==
    [k \in Tokens |->
        LET w == First(rows, k)
        IN  IF w = NoRow \/ w.last_request_date = NoDate
            THEN [date |-> NoDate, n |-> 0]
            ELSE [date |-> w.last_request_date, n |-> w.request_count_today]]

Init ==
    /\ now = StartTime
    /\ utcoffset \in UTCOffsets
    /\ api_keys \in InitTables(utcoffset)
    /\ pc = [r \in Reqs |-> "idle"]
    /\ kind = [r \in Reqs |-> ""]
    /\ resp = [r \in Reqs |-> NoResp]
    /\ txn = [r \in Reqs |-> FALSE]
    /\ running = {}
    /\ accepted = InitAccepted(api_keys)
    /\ issued = InitIssued(api_keys)
    /\ evicted = {}
    /\ lastOp = NoOp

\* ----------------------------------------------------------------- actions
\* The clock advances.
Tick ==
    /\ now < StartTime + MaxTicks
    /\ now' = now + 1
    /\ lastOp' = NoOp
    /\ UNCHANGED <<utcoffset, api_keys, pc, kind, resp, txn, running,
                   accepted, issued, evicted>>

\* A request is routed and get_db makes its Session (database.py:24-27).
\* Requests are interchangeable: they arrive in the order of their numbers.
Arrive(r) ==
    /\ running = {}
    /\ pc[r] = "idle"
    /\ \A q \in 1..(r - 1) : pc[q] # "idle"
    /\ \E k \in {"ask", "create"} : kind' = [kind EXCEPT ![r] = k]
    /\ pc' = [pc EXCEPT ![r] = "deps"]
    /\ lastOp' = NoOp
    /\ UNCHANGED <<now, utcoffset, api_keys, resp, txn, running,
                   accepted, issued, evicted>>

\* How a handler ends in a response: an HTTPException, a database error
\* turned into 500 by the server, or the returned body.  `open` tells whether
\* the Session is left with a transaction begun and not ended.
Raise(r, status, detail, key, days, open) ==
    /\ pc' = [pc EXCEPT ![r] = "exit"]
    /\ resp' = [resp EXCEPT ![r] = Resp(status, detail, key, days)]
    /\ txn' = [txn EXCEPT ![r] = open]

\* get_api_key as it would run if it gave up the event loop between reading
\* the row and committing it: the counter written is computed from the row as
\* it was read (held in resp[r] meanwhile), a lost update.
GetApiKeyYielding(r) ==
    /\ running = {}
    /\ pc[r] = "deps"
    /\ kind[r] = "ask"
    /\ \/ /\ resp[r] = NoResp
          /\ \E api_key \in Tokens :
              LET db_key == First(api_keys, api_key)
                  today == Today(now, utcoffset)
              IN  /\ db_key # NoRow
                  /\ ~Expired(db_key, now)
                  /\ ~(db_key.last_request_date = today /\ OverLimit(db_key))
                  /\ resp' = [resp EXCEPT ![r] =
                                 Resp(Charge(db_key, today).request_count_today,
                                      "loaded", api_key, 0)]
          /\ lastOp' = NoOp
          /\ UNCHANGED <<api_keys, accepted, pc, txn>>
       \/ /\ resp[r].detail = "loaded"
          /\ LET api_key == resp[r].key
                 db_key == First(api_keys, api_key)
                 today == Today(now, utcoffset)
             IN  /\ db_key # NoRow
                 /\ api_keys' = Updated(api_keys,
                        [db_key EXCEPT !.last_request_date = today,
                                       !.request_count_today = resp[r].status])
                 /\ lastOp' = Op("validate", r, api_key, Absent, api_key,
                                 api_keys, now, FALSE)
                 /\ resp' = [resp EXCEPT ![r] = Resp(0, "valid", api_key, 0)]
                 /\ accepted' = Admit(accepted, api_key, today)
          /\ pc' = [pc EXCEPT ![r] = "endpoint"]
          /\ UNCHANGED txn
    /\ UNCHANGED <<now, utcoffset, kind, running, issued, evicted>>

\* get_api_key, main.py:179-217, run as the dependency of GET /ask.  A
\* db.commit() either writes or raises (locked database, full disk).
GetApiKey(r) ==
    /\ running = {}
    /\ pc[r] = "deps"
    /\ kind[r] = "ask"
    /\ \E key_from_header \in Tokens \cup {Absent, ""},
          key_from_query \in Tokens \cup {Absent, ""} :
        LET api_key == Candidate(key_from_header, key_from_query)
            db_key == First(api_keys, api_key)
            today == Today(now, utcoffset)
            Ran(failed) == Op("validate", r, key_from_header, key_from_query,
                              api_key, api_keys, now, failed)
        IN  IF Falsy(api_key)
            THEN /\ Raise(r, 403, "required", "", 0, FALSE)
                 /\ lastOp' = Ran(FALSE)
                 /\ UNCHANGED <<api_keys, accepted, evicted>>
            ELSE IF db_key = NoRow
            THEN /\ Raise(r, 403, "invalid", "", 0, TRUE)
                 /\ lastOp' = Ran(FALSE)
                 /\ UNCHANGED <<api_keys, accepted, evicted>>
            ELSE IF Expired(db_key, now)
            THEN \E commit_ok \in BOOLEAN :
                 /\ api_keys' = Commit(api_keys, Deleted(api_keys, db_key), commit_ok)
                 /\ IF commit_ok
                    THEN /\ Raise(r, 403, "expired", "", 0, FALSE)
                         /\ evicted' = evicted \cup
                                {[key |-> api_key, n |-> Len(issued)]}
                    ELSE /\ Raise(r, 500, "error", "", 0, TRUE)
                         /\ UNCHANGED evicted
                 /\ lastOp' = Ran(~commit_ok)
                 /\ UNCHANGED accepted
            ELSE IF db_key.last_request_date = today /\ OverLimit(db_key)
            THEN /\ Raise(r, 429, "limit", "", DAILY_REQUEST_LIMIT, TRUE)
                 /\ lastOp' = Ran(FALSE)
                 /\ UNCHANGED <<api_keys, accepted, evicted>>
            ELSE \E commit_ok \in BOOLEAN :
                 /\ api_keys' = Commit(api_keys,
                                       Updated(api_keys, Charge(db_key, today)),
                                       commit_ok)
                 /\ lastOp' = Ran(~commit_ok)
                 /\ IF commit_ok
                    THEN /\ pc' = [pc EXCEPT ![r] = "endpoint"]
                         /\ resp' = [resp EXCEPT ![r] = Resp(0, "valid", api_key, 0)]
                         /\ txn' = [txn EXCEPT ![r] = FALSE]
                         /\ accepted' = Admit(accepted, api_key, today)
                    ELSE /\ Raise(r, 500, "error", "", 0, TRUE)
                         /\ UNCHANGED accepted
                 /\ UNCHANGED evicted
    /\ UNCHANGED <<now, utcoffset, kind, running, issued>>

\* create_api_key, main.py:222-238 (POST /create-key); secrets.token_urlsafe
\* may return any token; the INSERT is refused for a key already stored.
CreateApiKey(r) ==
    /\ running = {}
    /\ pc[r] = "deps"
    /\ kind[r] = "create"
    /\ \E new_key_str \in Tokens, commit_ok \in BOOLEAN :
        LET ok == commit_ok /\ ~UniqueViolation(api_keys, new_key_str)
        IN  /\ lastOp' = Op("create", r, Absent, Absent, new_key_str, api_keys,
                            now, ~ok)
            /\ api_keys' = Commit(api_keys,
                                  api_keys \cup {NewRow(api_keys, new_key_str, now)},
                                  ok)
            /\ IF ok
               THEN /\ Raise(r, 200, "created", new_key_str, KEY_EXPIRATION_DAYS, FALSE)
                    /\ issued' = Append(issued, new_key_str)
                    /\ accepted' = [accepted EXCEPT
                                       ![new_key_str] = [date |-> NoDate, n |-> 0]]
               ELSE /\ Raise(r, 500, "error", "", 0, TRUE)
                    /\ UNCHANGED <<issued, accepted>>
    /\ UNCHANGED <<now, utcoffset, kind, running, evicted>>

\* ask_zeus_ai, main.py:241-254: chain.invoke is entered ...
InvokeChain(r) ==
    /\ running = {}
    /\ pc[r] = "endpoint"
    /\ pc' = [pc EXCEPT ![r] = "invoke"]
    /\ running' = {r}
    /\ lastOp' = NoOp
    /\ UNCHANGED <<now, utcoffset, api_keys, kind, resp, txn,
                   accepted, issued, evicted>>

\* ... and returns the model's text or raises (remote failure, timeout).
\* (first, a handler that gives the unit of quota back when the call raises)
ChainRollsBack(r, ok) ==
    /\ pc[r] = "invoke"
    /\ running = {r}
    /\ running' = {}
    /\ pc' = [pc EXCEPT ![r] = "exit"]
    /\ resp' = [resp EXCEPT ![r] =
                    IF ok THEN Resp(200, "response", "", 0)
                          ELSE Resp(500, "An error occurred", "", 0)]
    /\ api_keys' = IF ok THEN api_keys
                   ELSE {IF w.key = resp[r].key
                         THEN [w EXCEPT !.request_count_today = @ - 1]
                         ELSE w : w \in api_keys}
    /\ lastOp' = Op("invoke", r, Absent, Absent, resp[r].key, api_keys, now, ~ok)
    /\ UNCHANGED <<now, utcoffset, kind, txn, accepted, issued, evicted>>
ChainReturns(r, ok) ==
    /\ pc[r] = "invoke"
    /\ running = {r}
    /\ running' = {}
    /\ pc' = [pc EXCEPT ![r] = "exit"]
    /\ resp' = [resp EXCEPT ![r] =
                    IF ok THEN Resp(200, "response", "", 0)
                          ELSE Resp(500, "An error occurred", "", 0)]
    /\ lastOp' = Op("invoke", r, Absent, Absent, resp[r].key, api_keys, now, ~ok)
    /\ UNCHANGED <<now, utcoffset, api_keys, kind, txn,
                   accepted, issued, evicted>>

\* get_db's finally: db.close() (database.py:28-29); the response has been
\* sent and the request is over.
Close(r) ==
    /\ running = {}
    /\ pc[r] = "exit"
    /\ pc' = [pc EXCEPT ![r] = "done"]
    /\ txn' = [txn EXCEPT ![r] = FALSE]
    /\ resp' = [resp EXCEPT ![r] = NoResp]
    /\ kind' = [kind EXCEPT ![r] = ""]
    /\ lastOp' = NoOp
    /\ UNCHANGED <<now, utcoffset, api_keys, running,
                   accepted, issued, evicted>>

Next ==
    \/ Tick
    \/ \E r \in Reqs : Arrive(r)
    \/ \E r \in Reqs : GetApiKey(r)
    \/ \E r \in Reqs : CreateApiKey(r)
    \/ \E r \in Reqs : InvokeChain(r)
    \/ \E r \in Reqs, ok \in BOOLEAN : ChainReturns(r, ok)
    \/ \E r \in Reqs : Close(r)

Spec == Init /\ [][Next]_vars

TypeOK ==
    /\ now \in StartTime..(StartTime + MaxTicks)
    /\ \A w \in api_keys : w.key \in Tokens /\ w.id >= 1
    /\ running \subseteq Reqs /\ Cardinality(running) <= 1

\* ------------------------------------------------------------------ claims
\* What the properties below read off the history of the last handler run.
Validated == lastOp.name = "validate"
Created == lastOp.name = "create"
Invoked == lastOp.name = "invoke"
\* the row the run found for its candidate key, and the row of that id now
Found == First(lastOp.before, lastOp.key)
Kept == {w \in api_keys : w.id = Found.id}
\* the request was accepted: get_api_key returned the row to the endpoint
Accepted(r) == pc[r] = "endpoint" /\ resp[r].detail = "valid"
\* the 30 days after created_at, and the dates the run saw
ExpirationInstant(w) == w.created_at + KEY_EXPIRATION_DAYS * TicksPerDay
ServerDate == (lastOp.at + utcoffset) \div TicksPerDay
UTCDate == lastOp.at \div TicksPerDay
\* a validate run on a stored, unexpired key
OnLiveKey == Validated /\ Found # NoRow /\ lastOp.at <= ExpirationInstant(Found)

\* C1 (quota boundary): a validate of an unexpired key already used on the
\* server's current date, the store accepting the write, succeeds while the
\* counter is below 1000 and leaves it one higher and equal to the number of
\* calls accepted on that date; at 1000 it fails with 429 and leaves the
\* counter at 1000 and the date unchanged.
C1_QuotaBoundary ==
    (OnLiveKey /\ Found.last_request_date = ServerDate /\ ~lastOp.failed) =>
        IF Found.request_count_today < 1000
        THEN /\ Accepted(lastOp.r)
             /\ Kept = {[Found EXCEPT !.request_count_today = @ + 1]}
             /\ accepted[lastOp.key] =
                    [date |-> ServerDate, n |-> Found.request_count_today + 1]
             /\ Found.request_count_today + 1 <= 1000
        ELSE /\ pc[lastOp.r] = "exit"
             /\ resp[lastOp.r].status = 429
             /\ resp[lastOp.r].detail = "limit"
             /\ api_keys = lastOp.before
             /\ Found.request_count_today = 1000
C1_Witness ==
    /\ OnLiveKey
    /\ Found.last_request_date = ServerDate
    /\ Found.request_count_today = 1000
    /\ resp[lastOp.r].status = 429
    /\ accepted[lastOp.key].n = 1000

\* C2 (no over-admission under concurrency): whatever the interleaving of the
\* requests in flight, no key has more than 1000 validate calls accepted on one
\* date, and a call is turned away with 429 only when 1000 were accepted on
\* that date: of N concurrent calls with m units left, min(N, m) succeed.
C2_NoOverAdmission ==
    /\ \A k \in Tokens : accepted[k].n <= 1000
    /\ (Validated /\ resp[lastOp.r].status = 429) =>
           accepted[lastOp.key] = [date |-> ServerDate, n |-> 1000]
\* two requests in flight at once on one key with one unit left: the first is
\* accepted and not yet answered when the second is turned away
C2_Witness ==
    /\ Validated
    /\ resp[lastOp.r].status = 429
    /\ \E q \in Reqs \ {lastOp.r} :
           /\ pc[q] \in {"endpoint", "invoke"}
           /\ resp[q].key = lastOp.key
    /\ accepted[lastOp.key].n = 1000

\* C3 (expiration boundary): a validate of a stored key ends with 403 "expired"
\* and the row deleted exactly when the clock is strictly past created_at + 30
\* days (the store accepting the delete); up to and including that instant the
\* key is not reported expired and its row stays.
C3_ExpirationBoundary ==
    (Validated /\ Found # NoRow) =>
        /\ lastOp.at <= ExpirationInstant(Found) =>
               /\ resp[lastOp.r].detail # "expired"
               /\ Kept # {}
        /\ (lastOp.at > ExpirationInstant(Found) /\ ~lastOp.failed) =>
               /\ resp[lastOp.r].status = 403
               /\ resp[lastOp.r].detail = "expired"
               /\ Kept = {}
               /\ api_keys = lastOp.before \ {Found}
C3_Witness ==
    /\ Validated
    /\ Found # NoRow
    /\ lastOp.at = ExpirationInstant(Found)
    /\ Accepted(lastOp.r)
    /\ Kept # {}

\* C4 (daily reset): a validate of an unexpired key whose last_request_date is
\* not the server's current date (earlier, or NULL), the store accepting the
\* write, succeeds whatever the stored counter is and leaves the date at the
\* current date and the counter at 1.
C4_DailyReset ==
    (OnLiveKey /\ Found.last_request_date # ServerDate /\ ~lastOp.failed) =>
        /\ Accepted(lastOp.r)
        /\ Kept = {[Found EXCEPT !.last_request_date = ServerDate,
                                 !.request_count_today = 1]}
C4_Witness ==
    /\ OnLiveKey
    /\ Found.last_request_date \notin {ServerDate, NoDate}
    /\ Found.request_count_today = 1000
    /\ Accepted(lastOp.r)
    /\ \E w \in Kept : w.request_count_today = 1 /\ w.last_request_date = ServerDate

\* C5 (missing / invalid credential): a validate with no key or an empty one
\* ends with 403 "required", one with a non-empty key that has no row with 403
\* "invalid"; neither creates, changes or deletes a row.
C5_MissingInvalid ==
    Validated =>
        /\ lastOp.key \in {Absent, ""} =>
               /\ resp[lastOp.r].status = 403
               /\ resp[lastOp.r].detail = "required"
               /\ pc[lastOp.r] = "exit"
               /\ api_keys = lastOp.before
        /\ (lastOp.key \notin {Absent, ""}
            /\ \A w \in lastOp.before : w.key # lastOp.key) =>
               /\ resp[lastOp.r].status = 403
               /\ resp[lastOp.r].detail = "invalid"
               /\ pc[lastOp.r] = "exit"
               /\ api_keys = lastOp.before
C5_Witness ==
    /\ Validated
    /\ lastOp.key = ""
    /\ resp[lastOp.r].detail = "required"
    /\ api_keys # {}

\* C6 (the quota day is the UTC date): the date an accepted validate stores as
\* last_request_date, and the date a 429 was decided for, is the UTC date of
\* the clock, whatever the server's time zone.
C6_QuotaDayIsUTC ==
    (OnLiveKey /\ ~lastOp.failed) =>
        /\ Accepted(lastOp.r) => \A w \in Kept : w.last_request_date = UTCDate
        /\ resp[lastOp.r].status = 429 => Found.last_request_date = UTCDate

\* C7 (quota is committed before the downstream call): a request is at the
\* endpoint or inside chain.invoke only after get_api_key accepted it and its
\* commit ended the transaction; when get_api_key returns, the charged row is
\* in the table; and a chain.invoke that raises leaves the table as it was.
C7_CommittedBeforeDownstream ==
    /\ \A r \in Reqs : pc[r] \in {"endpoint", "invoke"} =>
           resp[r].detail = "valid" /\ ~txn[r]
    /\ (Validated /\ Accepted(lastOp.r)) =>
           \E w \in Kept :
               /\ w.last_request_date = ServerDate
               /\ w.request_count_today =
                      IF Found.last_request_date = ServerDate
                      THEN Found.request_count_today + 1 ELSE 1
    /\ (Invoked /\ lastOp.failed) =>
           /\ api_keys = lastOp.before
           /\ resp[lastOp.r].status = 500
C7_Witness ==
    /\ Invoked
    /\ lastOp.failed
    /\ resp[lastOp.r].status = 500
    /\ \E w \in api_keys :
           w.key = lastOp.key /\ w.request_count_today = 1000

\* C8 (issuance effect): a create_api_key whose insert is stored adds exactly
\* one row, with created_at the clock, last_request_date NULL and counter 0,
\* answers with that row's key and the 30 days, and leaves every other row as
\* it was.
C8_IssuanceEffect ==
    (Created /\ ~lastOp.failed) =>
        \E w \in api_keys :
            /\ w \notin lastOp.before
            /\ api_keys = lastOp.before \cup {w}
            /\ w.key = lastOp.key
            /\ w.created_at = lastOp.at
            /\ w.last_request_date = NoDate
            /\ w.request_count_today = 0
            /\ resp[lastOp.r] = Resp(200, "created", w.key, 30)
C8_Witness ==
    /\ Created
    /\ ~lastOp.failed
    /\ lastOp.before # {}
    /\ Cardinality(api_keys) = Cardinality(lastOp.before) + 1

C10_FailedCommitNotApplied ==
    (OnLiveKey /\ lastOp.failed) =>
        /\ resp[lastOp.r].status = 500
        /\ pc[lastOp.r] = "exit"
        /\ api_keys = lastOp.before
        /\ Kept = {Found}
C10_Witness ==
    /\ OnLiveKey
    /\ lastOp.failed
    /\ Found.request_count_today = 999
    /\ Found.last_request_date = ServerDate
    /\ Kept = {Found}

\* C11 (a downstream call in flight does not block quota bookkeeping): while a
\* request is inside chain.invoke its Session holds no open transaction, and
\* every request waiting at its get_api_key dependency can run it.
C11_DownstreamDoesNotBlock ==
    \A r \in Reqs : pc[r] = "invoke" =>
        /\ ~txn[r]
        /\ \A q \in Reqs : (pc[q] = "deps" /\ kind[q] = "ask") => ENABLED GetApiKey(q)

\* a key is gone: a validate of it ended with 403 "expired" and no
\* create_api_key has returned it since
Gone(k) ==
    \E e \in evicted :
        /\ e.key = k
        /\ \A i \in (e.n + 1)..Len(issued) : issued[i] # k
\* the run that evicted its key (it found the row), as opposed to a later one
Evicting == Validated /\ Found # NoRow /\ resp[lastOp.r].detail = "expired"

C13_NoLostUpdate ==
    \A w \in api_keys :
        accepted[w.key] =
            [date |-> w.last_request_date, n |-> w.request_count_today]
\* two requests in flight at once on one key, both accepted: the counter shows
\* both
C13_Witness ==
    /\ Validated
    /\ Accepted(lastOp.r)
    /\ Found.request_count_today = 1
    /\ Found.last_request_date = ServerDate
    /\ \E q \in Reqs \ {lastOp.r} :
           /\ pc[q] \in {"endpoint", "invoke"}
           /\ resp[q].key = lastOp.key
    /\ \E w \in Kept : w.request_count_today = 2
    /\ accepted[lastOp.key].n = 2

\* C14 (expiry is checked before quota): a validate of a key that is past its
\* expiration instant and already at 1000 requests for the current date ends
\* with 403 "expired" and its row deleted (the store accepting the delete), not
\* with 429; a 429 is only ever given for a stored key that is not expired.
C14_ExpiryBeforeQuota ==
    Validated =>
        /\ (/\ Found # NoRow
            /\ lastOp.at > ExpirationInstant(Found)
            /\ Found.last_request_date = ServerDate
            /\ Found.request_count_today >= 1000
            /\ ~lastOp.failed) =>
               /\ resp[lastOp.r].status = 403
               /\ resp[lastOp.r].detail = "expired"
               /\ Kept = {}
        /\ resp[lastOp.r].status = 429 =>
               /\ Found # NoRow
               /\ lastOp.at <= ExpirationInstant(Found)
               /\ Kept = {Found}
C14_Witness ==
    /\ Validated
    /\ Found # NoRow
    /\ lastOp.at > ExpirationInstant(Found)
    /\ Found.last_request_date = ServerDate
    /\ Found.request_count_today = 1000
    /\ resp[lastOp.r].detail = "expired"
    /\ Kept = {}

\* C15 (frame of validate): a get_api_key run, whatever its outcome, leaves
\* every row of another key as it was and creates none; the row of its own key
\* is kept as it was, deleted, or kept with the same id, key and created_at and
\* only last_request_date and request_count_today changed.
C15_ValidateFrame ==
    Validated =>
        /\ \A w \in lastOp.before : w.key # lastOp.key => w \in api_keys
        /\ \A w \in api_keys : w.key # lastOp.key => w \in lastOp.before
        /\ \A w \in api_keys : w.key = lastOp.key =>
               /\ Found # NoRow
               /\ w.id = Found.id
               /\ w.created_at = Found.created_at
        /\ Cardinality(api_keys) <= Cardinality(lastOp.before)
\* a validate that changed its own row while the row of another key is stored
C15_Witness ==
    /\ Validated
    /\ Accepted(lastOp.r)
    /\ Kept # {Found}
    /\ \E w \in lastOp.before : w.key # lastOp.key /\ w \in api_keys

\* C16 (credential source precedence): a get_api_key run validates the
\* X-API-Key header value when it is present and non-empty, otherwise the
\* api_key query parameter: only the row of that key may differ afterwards, and
\* when no row has that key the run is refused with 403 "Invalid API Key." and
\* the table is as it was, whatever the other source carried.
C16_HeaderPrecedence ==
    Validated =>
        LET chosen == IF lastOp.hdr \notin {Absent, ""} THEN lastOp.hdr ELSE lastOp.qry
        IN  /\ \A w \in lastOp.before : w.key # chosen => w \in api_keys
            /\ (chosen \notin {Absent, ""} /\ First(lastOp.before, chosen) = NoRow) =>
                   /\ resp[lastOp.r].status = 403
                   /\ resp[lastOp.r].detail = "invalid"
                   /\ api_keys = lastOp.before
            /\ (chosen \notin {Absent, ""} /\ resp[lastOp.r].detail = "valid") =>
                   resp[lastOp.r].key = chosen
\* an unknown header key beside a stored query key: refused, table untouched
C16_Witness ==
    /\ Validated
    /\ lastOp.hdr \notin {Absent, ""}
    /\ First(lastOp.before, lastOp.hdr) = NoRow
    /\ lastOp.qry \notin {Absent, ""}
    /\ First(lastOp.before, lastOp.qry) # NoRow
    /\ resp[lastOp.r].status = 403
    /\ resp[lastOp.r].detail = "invalid"
    /\ api_keys = lastOp.before

\* C17 (counter range): every stored row has request_count_today within
\* 0..DAILY_REQUEST_LIMIT, and its counter is 0 exactly when its
\* last_request_date is NULL (no request of the key was ever accepted).
C17_CounterRange ==
    \A w \in api_keys :
        /\ 0 <= w.request_count_today
        /\ w.request_count_today <= DAILY_REQUEST_LIMIT
        /\ (w.request_count_today = 0) <=> (w.last_request_date = NoDate)
\* an accepted run that brought its row to the limit, or gave a never-used row
\* its first date, beside a never-used row
C17_Witness ==
    /\ Validated
    /\ Accepted(lastOp.r)
    /\ Found # NoRow
    /\ \/ Found.request_count_today = DAILY_REQUEST_LIMIT - 1
       \/ Found.last_request_date = NoDate
    /\ Kept # {Found}
    /\ \E w \in Kept : w.request_count_today = Found.request_count_today + 1
    /\ \E w \in api_keys : w.request_count_today = 0 /\ w.last_request_date = NoDate

====
